---- MODULE Spec2Model ----
\* Model of the cover-download pipeline of pages/1_pobieranie_okladek.py
\* (the "enhanced" variant) and of the extension resolution of app.py.
\*
\* Text is modelled as sequences of tokens.  A link is the token sequence
\* that follows "http://": the tokens before the first "/", "?" or "#" are
\* the network location, the rest is path, parameters, query and fragment.
\* An identifier cell is a sequence of the tokens "1", "2", "3", " ", ".0"
\* and "x".  Image bytes are records naming the row they were fetched for,
\* what the bytes decode to and how they were re-encoded.
EXTENDS Integers, Sequences, FiniteSets, TLC

\* ------------------------------------------------------------------ bounds
MaxRows == 2
MaxLinkLen == 4
\* a run started under a held report: the rows of the reported run and of
\* the new run together
MaxSessionRows == 2

\* --------------------------------------------------------------- constants
ALLOWED_FORMATS == {".jpg", ".jpeg", ".png", ".gif", ".webp", ".bmp"}
DEFAULT_FORMAT == ".jpg"
max_retries == 2

NaN == <<"NaN">>

\* ------------------------------------------------------------ text helpers
RECURSIVE Concat(_)
Concat(s) == IF s = <<>> THEN "" ELSE Head(s) \o Concat(Tail(s))

\* str.lower() on one token
Lower(t) ==
    CASE t = "JPG" -> "jpg"
      [] t = "PNG" -> "png"
      [] t = "WEBP" -> "webp"
      [] t = "PDF" -> "pdf"
      [] OTHER -> t

RECURSIVE LowerStr(_)
LowerStr(s) == IF s = <<>> THEN "" ELSE Lower(Head(s)) \o LowerStr(Tail(s))

\* index of the first token of s that is in set, Len(s) + 1 when there is none
FirstIn(s, set) ==
    IF \E i \in 1..Len(s) : s[i] \in set
    THEN CHOOSE i \in 1..Len(s) : s[i] \in set /\ \A j \in 1..(i - 1) : s[j] \notin set
    ELSE Len(s) + 1

\* str.rfind: index of the last occurrence of token t in s, 0 when there is none
LastOf(s, t) ==
    IF \E i \in 1..Len(s) : s[i] = t
    THEN CHOOSE i \in 1..Len(s) : s[i] = t /\ \A j \in (i + 1)..Len(s) : s[j] # t
    ELSE 0

\* urllib.parse._splitparams: the path up to the first ";" of its last segment
SplitParams(p) ==
    LET from == IF LastOf(p, "/") = 0 THEN 1 ELSE LastOf(p, "/")
        semis == {i \in from..Len(p) : p[i] = ";"}
    IN  IF semis = {} THEN p
        ELSE SubSeq(p, 1, (CHOOSE i \in semis : \A j \in semis : i <= j) - 1)

\* urlparse(str(link)).path
UrlPath(link) ==
    LET rest == SubSeq(link, FirstIn(link, {"/", "?", "#"}), Len(link))
        p == SubSeq(rest, 1, FirstIn(rest, {"?", "#"}) - 1)
    IN  SplitParams(p)

\* os.path.splitext(path)[1]: the tokens from the last dot of the last
\* segment on, unless only dots precede that dot in the segment
SplitExt(p) ==
    LET sepIndex == LastOf(p, "/")
        dotIndex == LastOf(p, ".")
    IN  IF dotIndex > sepIndex /\ \E k \in (sepIndex + 1)..(dotIndex - 1) : p[k] # "."
        THEN SubSeq(p, dotIndex, Len(p))
        ELSE <<>>

\* os.path.splitext(parsed_url.path)[1].lower()
PathExtension(link) == LowerStr(SplitExt(UrlPath(link)))

\* '.pdf' in str(link).lower()
StartsWithPdf(t) == Lower(t) \in {"pdf"}
ContainsPdf(link) ==
    \E i \in 1..(Len(link) - 1) : link[i] = "." /\ StartsWithPdf(link[i + 1])

\* mutant: the PDF test looks at the path extension only
IsPdfLink_ExtensionOnly(link) == PathExtension(link) = ".pdf"

\* mutant: the PDF test compares without lower-casing
IsPdfLink_CaseSensitive(link) ==
    \/ Concat(SplitExt(UrlPath(link))) = ".pdf"
    \/ \E i \in 1..(Len(link) - 1) : link[i] = "." /\ link[i + 1] = "pdf"

\* extension == '.pdf' or '.pdf' in str(link).lower()
IsPdfLink(link) == PathExtension(link) = ".pdf" \/ ContainsPdf(link)

\* mutant: the allowed set is not consulted
DefaultIfUnknown_NoAllowedSet(extension) ==
    IF extension = "" THEN DEFAULT_FORMAT ELSE extension

\* if not extension or extension not in ALLOWED_FORMATS: extension = DEFAULT_FORMAT
DefaultIfUnknown(extension) ==
    IF extension = "" \/ extension \notin ALLOWED_FORMATS THEN DEFAULT_FORMAT ELSE extension

\* the extension the enhanced row loop resolves for a link it does not skip
ResolveExtension(link) == DefaultIfUnknown(PathExtension(link))

\* -------------------------------------------------------- identifier cells
Digits == {"1", "2", "3"}

RECURSIVE LStrip(_)
LStrip(s) == IF s # <<>> /\ Head(s) = " " THEN LStrip(Tail(s)) ELSE s

RECURSIVE RStrip(_)
RStrip(s) == IF s # <<>> /\ s[Len(s)] = " " THEN RStrip(SubSeq(s, 1, Len(s) - 1)) ELSE s

\* str.strip()
Strip(s) == LStrip(RStrip(s))

\* str.replace(' ', '')
RECURSIVE RemoveSpaces(_)
RemoveSpaces(s) ==
    IF s = <<>> THEN <<>>
    ELSE IF Head(s) = " " THEN RemoveSpaces(Tail(s))
    ELSE <<Head(s)>> \o RemoveSpaces(Tail(s))

\* float(cell) succeeds: digits, with at most one ".0" among them,
\* surrounding blanks allowed
FloatOk(cell) ==
    LET s == Strip(cell)
        k == FirstIn(s, {".0"})
    IN  /\ s # <<>>
        /\ \A i \in 1..Len(s) : i # k => s[i] \in Digits

\* float() yields an IEEE double: 53 significant bits, infinite from 2^1024
DoubleBits == 53
DoubleMaxBits == 1024
\* numerals are sequences of digits 0..9, most significant first; <<>> is 0
DigitValue(t) == CASE t = "1" -> 1 [] t = "2" -> 2 [] t = "3" -> 3 [] OTHER -> 0
DigitText(d) == <<"0", "1", "2", "3", "4", "5", "6", "7", "8", "9">>[d + 1]

\* the element of a singleton set; a step of a computation is bound through
\* one, so that its value is computed once
The(S) == CHOOSE x \in S : TRUE

RECURSIVE StripZeros(_)
StripZeros(ds) == IF ds # <<>> /\ Head(ds) = 0 THEN StripZeros(Tail(ds)) ELSE ds

\* the numeral ds divided by 2: the remainder carried into a digit is the
\* parity of the digit before it
Halve(ds) ==
    StripZeros([i \in 1..Len(ds) |->
                  (10 * (IF i = 1 THEN 0 ELSE ds[i - 1] % 2) + ds[i]) \div 2])
Odd(ds) == ds # <<>> /\ ds[Len(ds)] % 2 = 1

\* the numeral 2 * ds: a digit takes a carry iff the digit after it is 5 or more
Twice(ds) ==
    LET low == [i \in 1..Len(ds) |->
                  ((2 * ds[i]) % 10) + (IF i < Len(ds) /\ ds[i + 1] >= 5 THEN 1 ELSE 0)]
    IN  IF ds # <<>> /\ ds[1] >= 5 THEN <<1>> \o low ELSE low

\* the numeral ds divided by 2^k, k <= 9: the remainder carried into a digit
\* is that of the k digits before it (10^k is a multiple of 2^k)
DigitAt(ds, i) == IF i < 1 THEN 0 ELSE ds[i]
RECURSIVE Window(_, _, _)
Window(ds, i, k) == IF k = 0 THEN 0 ELSE 10 * Window(ds, i - 1, k - 1) + DigitAt(ds, i)
DivPow(ds, k, d) ==
    StripZeros([i \in 1..Len(ds) |-> (10 * (Window(ds, i - 1, k) % d) + ds[i]) \div d])
ModPow(ds, k, d) == Window(ds, Len(ds), k) % d

\* the numerals 8 * ds and 512 * ds
Times8(ds) == The({Twice(b) : b \in {Twice(a) : a \in {Twice(ds)}}})
Times512(ds) == The({Times8(b) : b \in {Times8(a) : a \in {Times8(ds)}}})

\* the numeral ds * 2^e, in steps of 512, then of 2
RECURSIVE MulPow(_, _)
MulPow(ds, e) ==
    IF e = 0 THEN ds
    ELSE IF e >= 9 THEN The({MulPow(p, e - 9) : p \in {Times512(ds)}})
    ELSE The({MulPow(p, e - 1) : p \in {Twice(ds)}})

\* the numeral ds + 1: the last digit below 9 rises, the 9s after it fall to 0
AddOne(ds) ==
    LET low == {i \in 1..Len(ds) : ds[i] < 9}
        k == IF low = {} THEN 0 ELSE CHOOSE i \in low : \A j \in low : j <= i
        r == [i \in 1..Len(ds) |-> IF i < k THEN ds[i] ELSE IF i = k THEN ds[i] + 1 ELSE 0]
    IN  IF k = 0 THEN <<1>> \o r ELSE r

\* a < b, for numerals without leading zeros
Less(a, b) ==
    \/ Len(a) < Len(b)
    \/ /\ Len(a) = Len(b)
       /\ \E i \in 1..Len(a) : a[i] < b[i] /\ \A j \in 1..(i - 1) : a[j] = b[j]

TwoTo53 == MulPow(<<1>>, DoubleBits)
TwoTo54 == MulPow(<<1>>, DoubleBits + 1)
TwoTo63 == MulPow(<<1>>, DoubleBits + 10)

\* q divided by 512, then by 2, until it is below 2^54: the quotient, the number e of halvings,
\* and whether a nonzero bit was dropped (or sticky was set before)
RECURSIVE Shift(_, _, _)
Shift(q, sticky, e) ==
    IF Less(q, TwoTo54) THEN [q |-> q, sticky |-> sticky, e |-> e]
    ELSE IF ~Less(q, TwoTo63)
         THEN The({Shift(h, st, e + 9) :
                     h \in {DivPow(q, 9, 512)}, st \in {sticky \/ ModPow(q, 9, 512) # 0}})
    ELSE The({Shift(h, st, e + 1) : h \in {Halve(q)}, st \in {sticky \/ Odd(q)}})

\* the double m * 2^e nearest to q * 2^e (ties to even), for 2^53 <= q < 2^54
\* and sticky telling whether anything nonzero follows the last bit of q
Nearest(q, sticky, e) ==
    IF ~Odd(q) THEN [m |-> q, e |-> e]
    ELSE IF sticky \/ ModPow(q, 2, 4) = 3 THEN [m |-> AddOne(q), e |-> e]
    ELSE [m |-> [q EXCEPT ![Len(q)] = @ - 1], e |-> e]

\* the integer part ds of a decimal text, followed by a fraction that is
\* nonzero iff frac, rounded to the nearest double: the double is m * 2^e; a
\* numeral below 2^53 is a double itself
RoundToDouble(ds, frac) ==
    The({IF Less(sh.q, TwoTo53) THEN [m |-> sh.q, e |-> 0]
         ELSE Nearest(sh.q, sh.sticky, sh.e) : sh \in {Shift(ds, frac, 0)}})

\* float(cell), for a cell float() accepts (the tokens after a ".0" are a
\* nonzero fraction)
FloatOf(cell) ==
    LET s == Strip(cell)
        k == FirstIn(s, {".0"})
    IN  The({RoundToDouble(ds, k < Len(s)) :
               ds \in {StripZeros([i \in 1..(k - 1) |-> DigitValue(s[i])])}})

\* the double is an infinity: 2^1024 or more
IsInf(f) == f.e + (IF f.m = TwoTo54 THEN DoubleBits + 2 ELSE DoubleBits + 1) > DoubleMaxBits
                /\ ~Less(f.m, TwoTo53)

\* int(float(cell)) succeeds: float() accepts the cell and the double is
\* finite (int() raises OverflowError on an infinity)
IntOk(cell) == FloatOk(cell) /\ \A f \in {FloatOf(cell)} : ~IsInf(f)

\* str(int(float(cell))): the numeral of the double's integer part
IntStr(cell) ==
    The({IF ds = <<>> THEN "0" ELSE Concat([i \in 1..Len(ds) |-> DigitText(ds[i])]) :
           ds \in {MulPow(f.m, f.e) : f \in {FloatOf(cell)}}})

\* the identifier of a table row (row loop):
\*   try: str(int(float(ean))).strip().replace(' ', '')
\*   except: str(ean).strip().replace(' ', '')
NormalizeEan(cell) ==
    IF IntOk(cell) THEN IntStr(cell) ELSE Concat(RemoveSpaces(Strip(cell)))

\* one line of the allow-list text (parse_ean_list): inner blanks are kept
ParseEanLine(line) ==
    IF IntOk(Strip(line)) THEN IntStr(Strip(line)) ELSE Concat(Strip(line))

\* parse_ean_list(ean_text): the set of the parsed non-blank lines
parse_ean_list(ean_text) ==
    {ParseEanLine(ean_text[i]) : i \in {j \in 1..Len(ean_text) : Strip(ean_text[j]) # <<>>}}

\* an optional set: None, or a set
None == [isNone |-> TRUE, val |-> {}]
Some(S) == [isNone |-> FALSE, val |-> S]
\* truth value of an optional set in "if ean_filter_set": None and set() are false
Truthy(o) == ~o.isNone /\ o.val # {}

\* ------------------------------------------------------------- image bytes
\* what fetched bytes decode to: an opaque image, an image with transparency,
\* or nothing PIL can open
ImageKinds == {"opaque", "alpha", "invalid"}
\* the images a fetch can return: has_transparency is true of kind "alpha",
\* an RGBA (or LA) image with a pixel that is not opaque or a palette image
\* with a transparency entry; mode is PIL's image.mode
Images == {[kind |-> "opaque", mode |-> "RGB"],
           [kind |-> "opaque", mode |-> "RGBA"],
           [kind |-> "alpha", mode |-> "RGBA"],
           [kind |-> "alpha", mode |-> "P"],
           [kind |-> "invalid", mode |-> "none"]}
\* the images drawn for the enhanced page, which looks at an image through
\* has_transparency only: one image for each outcome
PageImages == {im \in Images : im.mode \in {"RGB", "none"} \/ (im.mode = "RGBA" /\ im.kind = "alpha")}
RAISE == [raised |-> TRUE]

\* add_white_background(image_bytes): the input itself unless the image
\* decodes and has transparency; any exception returns the input
add_white_background(image_bytes) ==
    IF image_bytes.kind = "alpha" THEN [image_bytes EXCEPT !.form = "white"]
    ELSE image_bytes

\* mutant: the conversion swallows the decode error and returns its input
convert_webp_to_png_Swallows(image_bytes, remove_transparency) ==
    IF image_bytes.kind = "invalid" THEN image_bytes
    ELSE IF remove_transparency /\ image_bytes.kind = "alpha"
         THEN [image_bytes EXCEPT !.form = "png_white"]
    ELSE [image_bytes EXCEPT !.form = "png"]

\* convert_webp_to_png(image_bytes, remove_transparency): raises on bytes
\* that do not decode
convert_webp_to_png(image_bytes, remove_transparency) ==
    IF image_bytes.kind = "invalid" THEN RAISE
    ELSE IF remove_transparency /\ image_bytes.kind = "alpha"
         THEN [image_bytes EXCEPT !.form = "png_white"]
    ELSE [image_bytes EXCEPT !.form = "png"]

\* ------------------------------------------------------------------ inputs
\* an identifier of 17 digits, which no double holds exactly
LongId == [i \in 1..17 |-> "1"]
EanCells == {NaN, <<"1">>, <<"1", ".0">>, <<" ">> \o LongId}
LinkCells == {NaN,
              <<"a", "/", "a", ".", "jpg">>,
              <<"a", "/", "a", ".", "WEBP">>,
              <<"a", "/", "a", ".", "PDF">>,
              <<"a", "/", "a", ".", "pdf", ".", "jpg">>,
              <<"a", "/", "a">>}
Rows == [ean : EanCells, link : LinkCells]

\* the allow-list text area: a sequence of lines; <<>> is the empty text
FilterTexts == {<<>>, << <<" ">> >>, << <<"1", ".0">>, <<" ">>, <<"3">> >>}

\* ------------------------------------------------------------------- state
VARIABLES
    pc,                  \* "idle", "loop", "fetch", "fetched", "done"
    convert_webp, handle_transparency, overwrite, ean_filter_text, total_rows,
    idx,                 \* index of the row the loop is at (0-based)
    ean, extension, original_ext,
    image_data,          \* the bytes of the row at hand, NoImage between rows
    attempt, tries, retry_sleeps,
                         \* the pobierz_obraz call of the row at hand, or the
                         \* last call that raised: attempt index, outcome of
                         \* each attempt, number of time.sleep(2) calls
    ean_filter_set, found_eans, downloaded_files,
    stats, errors_log, pdf_eans, transparency_processed,
    row_sleeps,          \* number of time.sleep(delay_between) calls
    hist,                \* per finished row: identifier, filename, terminal state
                         \* and whether the pause followed it
    download_results,
    link_pdf,            \* whether the link of the row at hand names a PDF
    rlink, rres          \* a link handed to the extension resolution, and its result

vars == <<pc, convert_webp, handle_transparency, overwrite, ean_filter_text,
          total_rows, idx, ean, extension, original_ext, image_data,
          attempt, tries, retry_sleeps, ean_filter_set, found_eans,
          downloaded_files, stats, errors_log, pdf_eans,
          transparency_processed, row_sleeps, hist, download_results, link_pdf, rlink, rres>>

config == <<convert_webp, handle_transparency, overwrite, ean_filter_text, total_rows>>
fetcher == <<attempt, tries, retry_sleeps>>
resolver == <<rlink, rres>>
rowvars == <<ean, extension, original_ext, image_data>>

NoImage == [row |-> -1, kind |-> "none", mode |-> "none", form |-> "none"]
ZeroStats == [sukces |-> 0, blad |-> 0, istnieje |-> 0, konwersje |-> 0,
              transparency_fixed |-> 0, nieznalezione_ean |-> 0,
              pdf_pominiete |-> 0, puste_wiersze |-> 0]

Inc(s, k) == [s EXCEPT ![k] = @ + 1]

\* downloaded_files is a dict: a set of (name, data) entries
Keys(d) == {e.name : e \in d}
\* mutant: the store appends instead of replacing
DictSet_Appends(d, k, v) == d \cup {[name |-> k, data |-> v]}

\* downloaded_files[filename] = image_data
DictSet(d, k, v) == {e \in d : e.name # k} \cup {[name |-> k, data |-> v]}

NoResult == [skipped |-> FALSE, extension |-> ""]

\* the state before anything has run
Blank ==
    /\ idx = 0
    /\ ean = ""
    /\ extension = ""
    /\ original_ext = ""
    /\ image_data = NoImage
    /\ attempt = 0
    /\ tries = <<>>
    /\ retry_sleeps = 0
    /\ ean_filter_set = None
    /\ found_eans = {}
    /\ downloaded_files = {}
    /\ stats = ZeroStats
    /\ errors_log = <<>>
    /\ pdf_eans = <<>>
    /\ transparency_processed = <<>>
    /\ row_sleeps = 0
    /\ hist = <<>>
    /\ download_results = None
    /\ link_pdf = FALSE

\* the page of the enhanced variant as first rendered: the checkboxes and the
\* text area at their default values, no run started
Init ==
    /\ pc = "idle"
    /\ convert_webp = TRUE
    /\ handle_transparency = TRUE
    /\ overwrite = FALSE
    /\ ean_filter_text = <<>>
    /\ total_rows = 0
    /\ rlink = <<>>
    /\ rres = NoResult
    /\ Blank

\* the text area is empty: "if ean_filter_text" is false
IsEmptyText(t) == t = <<>> \/ t = << <<>> >>

\* the variables of a script run, which a new run of the script starts afresh
RunReset ==
    /\ idx' = 0
    /\ ean' = ""
    /\ extension' = ""
    /\ original_ext' = ""
    /\ image_data' = NoImage
    /\ attempt' = 0
    /\ tries' = <<>>
    /\ retry_sleeps' = 0
    /\ row_sleeps' = 0
    /\ hist' = <<>>
    /\ link_pdf' = FALSE

\* len(df) of the table loaded when the start button is pressed: any table
\* when no report is held; under a held report a table that keeps the rows of
\* the reported run and of the new run within MaxSessionRows
NextTables ==
    IF download_results.isNone THEN 0..MaxRows
    ELSE {n \in 0..MaxRows : total_rows + n <= MaxSessionRows}

\* the "ROZPOCZNIJ POBIERANIE" button: the state set up before the row loop.
\* The button is rendered whenever a table is loaded, also under a report;
\* the run takes the table, the checkboxes and the text area as they are at
\* the press; st.session_state.download_results keeps the report until the
\* run ends.
Start ==
    /\ pc \in {"idle", "done"}
    /\ pc' = "loop"
    /\ total_rows' \in NextTables
    /\ convert_webp' \in BOOLEAN
    /\ handle_transparency' \in BOOLEAN
    /\ overwrite' \in BOOLEAN
    /\ ean_filter_text' \in FilterTexts
    /\ ean_filter_set' = IF ~IsEmptyText(ean_filter_text')
                         THEN Some(parse_ean_list(ean_filter_text')) ELSE None
    /\ downloaded_files' = {}
    /\ found_eans' = {}
    /\ stats' = ZeroStats
    /\ errors_log' = <<>>
    /\ pdf_eans' = <<>>
    /\ transparency_processed' = <<>>
    /\ RunReset
    /\ UNCHANGED <<resolver, download_results>>

\* the sidebar button "Wyczysc raport", rendered while a report is held:
\* st.session_state.download_results = None; st.rerun()
ClearReport ==
    /\ pc = "done"
    /\ ~download_results.isNone
    /\ download_results' = None
    /\ pc' = "idle"
    /\ ean_filter_set' = None
    /\ downloaded_files' = {}
    /\ found_eans' = {}
    /\ stats' = ZeroStats
    /\ errors_log' = <<>>
    /\ pdf_eans' = <<>>
    /\ transparency_processed' = <<>>
    /\ RunReset
    /\ UNCHANGED <<config, resolver>>

\* the record kept of a finished row: its identifier ("" when the identifier
\* cell is blank), the resolved extension and the filename (once known),
\* whether pobierz_obraz returned, how convert_webp_to_png ended, the
\* terminal state, whether the pause followed
Outcome(id, ext, file, fetched, conv, term, paused) ==
    [ean |-> id, ext |-> ext, file |-> file, fetched |-> fetched,
     conv |-> conv, term |-> term, paused |-> paused]

\* a row has reached a terminal state: the loop moves to the next row,
\* after time.sleep(delay_between) unless the row left with "continue"
Finish(h) ==
    /\ hist' = Append(hist, h)
    /\ row_sleeps' = IF h.paused THEN row_sleeps + 1 ELSE row_sleeps
    /\ idx' = idx + 1
    /\ pc' = "loop"

\* the link carries ".pdf" as its path extension or anywhere in its text
ClaimedPdf(link) ==
    \/ PathExtension(link) = ".pdf"
    \/ \E i \in 1..(Len(link) - 1) : link[i] = "." /\ link[i + 1] \in {"pdf", "PDF"}

\* the identifier of a row, "" when its identifier cell is blank
RowId(r) == IF r.ean = NaN THEN "" ELSE NormalizeEan(r.ean)
RowPdfLink(r) == r.link # NaN /\ ClaimedPdf(r.link)

\* for idx, row in df.iterrows(): a further row is left
InLoop == pc = "loop" /\ idx < total_rows
\* mutant: the loop ends one row early
LoopDone_OneEarly == pc = "loop" /\ idx + 1 >= total_rows

\* the loop has run through the table
LoopDone == pc = "loop" /\ idx = total_rows

IsEmptyRow(r) == r.link = NaN \/ r.ean = NaN
\* mutant: the allow-list test is inverted
IsFilteredOut_Inverted(r) ==
    Truthy(ean_filter_set) /\ NormalizeEan(r.ean) \in ean_filter_set.val

IsFilteredOut(r) == Truthy(ean_filter_set) /\ NormalizeEan(r.ean) \notin ean_filter_set.val

\* if pd.isna(link) or pd.isna(ean): count and continue
RowEmpty(r) ==
    /\ InLoop
    /\ link_pdf' = RowPdfLink(r)
    /\ IsEmptyRow(r)
    /\ stats' = Inc(stats, "puste_wiersze")
    /\ Finish(Outcome(RowId(r), "", "", FALSE, "none", "EMPTY", FALSE))
    /\ UNCHANGED <<config, resolver, rowvars, fetcher, ean_filter_set, found_eans, downloaded_files,
                   errors_log, pdf_eans, transparency_processed, download_results>>

\* if ean_filter_set and ean not in ean_filter_set: count and continue
RowFilteredOut(r) ==
    /\ InLoop
    /\ link_pdf' = RowPdfLink(r)
    /\ ~IsEmptyRow(r)
    /\ IsFilteredOut(r)
    /\ ean' = NormalizeEan(r.ean)
    /\ stats' = Inc(stats, "nieznalezione_ean")
    /\ Finish(Outcome(ean', "", "", FALSE, "none", "FILTERED_OUT", FALSE))
    /\ UNCHANGED <<config, resolver, extension, original_ext, image_data, fetcher, ean_filter_set,
                   found_eans, downloaded_files, errors_log, pdf_eans,
                   transparency_processed, download_results>>

\* a link to a PDF: count, remember the identifier and continue
RowPdf(r) ==
    /\ InLoop
    /\ link_pdf' = RowPdfLink(r)
    /\ ~IsEmptyRow(r)
    /\ ~IsFilteredOut(r)
    /\ IsPdfLink(r.link)
    /\ ean' = NormalizeEan(r.ean)
    /\ found_eans' = found_eans \cup {ean'}
    /\ extension' = PathExtension(r.link)
    /\ stats' = Inc(stats, "pdf_pominiete")
    /\ pdf_eans' = Append(pdf_eans, ean')
    /\ Finish(Outcome(ean', "", "", FALSE, "none", "UNSUPPORTED_FORMAT", FALSE))
    /\ UNCHANGED <<config, resolver, original_ext, image_data, fetcher, ean_filter_set,
                   downloaded_files, errors_log, transparency_processed, download_results>>

\* any other row: resolve the extension and call pobierz_obraz
RowBeginFetch(r) ==
    /\ InLoop
    /\ ~IsEmptyRow(r)
    /\ ~IsFilteredOut(r)
    /\ ~IsPdfLink(r.link)
    /\ ean' = NormalizeEan(r.ean)
    /\ found_eans' = found_eans \cup {ean'}
    /\ extension' = ResolveExtension(r.link)
    /\ original_ext' = extension'
    /\ attempt' = 0
    /\ tries' = <<>>
    /\ retry_sleeps' = 0
    /\ link_pdf' = RowPdfLink(r)
    /\ pc' = "fetch"
    /\ UNCHANGED <<config, resolver, idx, image_data, ean_filter_set, downloaded_files, stats,
                   errors_log, pdf_eans, transparency_processed, row_sleeps, hist,
                   download_results>>

\* mutant: the handler counts the failure but records nothing
HandleException_NoRecord(msg) == errors_log' = errors_log

\* except Exception as e: one error record; the pause follows
HandleException(msg) ==
    errors_log' = Append(errors_log, [ean |-> ean, msg |-> msg])

\* mutant: one retry too many
CanRetry_OffByOne == attempt <= max_retries

\* pobierz_obraz: if attempt < max_retries
CanRetry == attempt < max_retries

\* pobierz_obraz: return response.content, the body of the attempt just made
Response(im) == [row |-> idx, kind |-> im.kind, mode |-> im.mode, form |-> "orig"]

\* pobierz_obraz, an attempt that succeeds
FetchOk ==
    /\ pc = "fetch"
    /\ \E im \in PageImages :
        /\ tries' = Append(tries, im.kind)
        /\ image_data' = Response(im)
    /\ pc' = "fetched"
    /\ UNCHANGED <<link_pdf, config, resolver, idx, ean, extension, original_ext, attempt, retry_sleeps,
                   ean_filter_set, found_eans, downloaded_files, stats, errors_log,
                   pdf_eans, transparency_processed, row_sleeps, hist, download_results>>

\* pobierz_obraz, a failed attempt with attempts left: time.sleep(2); continue
FetchRetry ==
    /\ pc = "fetch"
    /\ CanRetry
    /\ tries' = Append(tries, "err")
    /\ retry_sleeps' = retry_sleeps + 1
    /\ attempt' = attempt + 1
    /\ UNCHANGED <<link_pdf, config, resolver, pc, idx, rowvars, ean_filter_set, found_eans,
                   downloaded_files, stats, errors_log, pdf_eans, transparency_processed,
                   row_sleeps, hist, download_results>>

\* pobierz_obraz, the last attempt fails: raise e, caught by the row loop
FetchExhausted ==
    /\ pc = "fetch"
    /\ ~CanRetry
    /\ tries' = Append(tries, "err")
    /\ stats' = Inc(stats, "blad")
    /\ HandleException("fetch")
    /\ UNCHANGED link_pdf
    /\ Finish(Outcome(ean, original_ext, "", FALSE, "none", "FETCH_FAILED", TRUE))
    /\ UNCHANGED <<config, resolver, rowvars, attempt, retry_sleeps, ean_filter_set, found_eans,
                   downloaded_files, pdf_eans, transparency_processed, download_results>>

\* the row loop between the fetch and the filename
\* mutant: the standalone flattening is applied to .webp rows as well
Flattens_AlsoWebp == handle_transparency
\* if handle_transparency and extension != '.webp'
Flattens == handle_transparency /\ extension # ".webp"
AfterFlatten == IF Flattens THEN add_white_background(image_data) ELSE image_data
Fixed == Flattens /\ AfterFlatten # image_data
Converts == convert_webp /\ original_ext = ".webp"
AfterConvert == IF Converts THEN convert_webp_to_png(AfterFlatten, handle_transparency)
                ELSE AfterFlatten
FinalExtension == IF Converts THEN ".png" ELSE extension
\* mutant: a flattening is counted as a success
StatsAfterFlatten_CountsSuccess == IF Fixed THEN Inc(stats, "sukces") ELSE stats
StatsAfterFlatten == IF Fixed THEN Inc(stats, "transparency_fixed") ELSE stats
\* mutant: a conversion is counted as a success
StatsAfterConvert_CountsSuccess ==
    IF Converts THEN Inc(StatsAfterFlatten, "sukces") ELSE StatsAfterFlatten
StatsAfterConvert == IF Converts THEN Inc(StatsAfterFlatten, "konwersje") ELSE StatsAfterFlatten
filename == ean \o FinalExtension
\* mutant: the check for an existing entry is never true
IsDuplicate_Never == FALSE
\* if filename in downloaded_files and not overwrite
IsDuplicate == filename \in Keys(downloaded_files) /\ ~overwrite

\* the row is over: the frame of the call that returned and the bytes go
RowOver ==
    /\ attempt' = 0
    /\ tries' = <<>>
    /\ retry_sleeps' = 0
    /\ image_data' = NoImage
    /\ UNCHANGED link_pdf

Processed ==
    /\ RowOver
    /\ extension' = FinalExtension
    /\ transparency_processed' = IF Fixed THEN Append(transparency_processed, ean)
                                 ELSE transparency_processed

\* convert_webp_to_png raises: caught by the row loop
RowNormalizeFailed ==
    /\ pc = "fetched"
    /\ AfterConvert = RAISE
    /\ RowOver
    /\ transparency_processed' = IF Fixed THEN Append(transparency_processed, ean)
                                 ELSE transparency_processed
    /\ stats' = Inc(StatsAfterFlatten, "blad")
    /\ HandleException("convert")
    /\ Finish(Outcome(ean, original_ext, "", TRUE, "raised", "NORMALIZE_FAILED", TRUE))
    /\ UNCHANGED <<config, resolver, ean, extension, original_ext, ean_filter_set,
                   found_eans, downloaded_files, pdf_eans, download_results>>

\* if filename in downloaded_files and not overwrite: count and continue
RowDuplicateSkipped ==
    /\ pc = "fetched"
    /\ AfterConvert # RAISE
    /\ IsDuplicate
    /\ Processed
    /\ stats' = Inc(StatsAfterConvert, "istnieje")
    /\ Finish(Outcome(ean, original_ext, filename, TRUE,
                      IF Converts THEN "ok" ELSE "none", "DUPLICATE_SKIPPED", FALSE))
    /\ UNCHANGED <<config, resolver, ean, original_ext, ean_filter_set, found_eans,
                   downloaded_files, errors_log, pdf_eans, download_results>>

\* downloaded_files[filename] = image_data; one success; then the pause
RowAdded ==
    /\ pc = "fetched"
    /\ AfterConvert # RAISE
    /\ ~IsDuplicate
    /\ Processed
    /\ downloaded_files' = DictSet(downloaded_files, filename, AfterConvert)
    /\ stats' = Inc(StatsAfterConvert, "sukces")
    /\ Finish(Outcome(ean, original_ext, filename, TRUE,
                      IF Converts THEN "ok" ELSE "none", "ADDED", TRUE))
    /\ UNCHANGED <<config, resolver, ean, original_ext, ean_filter_set, found_eans,
                   errors_log, pdf_eans, download_results>>

\* ean_filter_set - found_eans if ean_filter_set else None
missing_eans == IF Truthy(ean_filter_set) THEN Some(ean_filter_set.val \ found_eans) ELSE None

\* after the loop: st.session_state.download_results = {...}
Publish ==
    /\ LoopDone
    /\ download_results' =
         Some([stats |-> stats, errors_log |-> errors_log, pdf_eans |-> pdf_eans,
               downloaded_files |-> downloaded_files,
               missing_eans |-> missing_eans,
               transparency_processed |-> transparency_processed])
    /\ pc' = "done"
    /\ UNCHANGED <<link_pdf, config, resolver, idx, rowvars, fetcher, ean_filter_set, found_eans,
                   downloaded_files, stats, errors_log, pdf_eans, transparency_processed,
                   row_sleeps, hist>>

\* the results view, rendered from st.session_state.download_results by a
\* script run in which the start button was not pressed (the run of the
\* button ends in st.rerun() before the view)
\* create_zip_from_memory(files_dict): one archive member per dict item
create_zip_from_memory(files_dict) ==
    {[member |-> e.name, bytes |-> e.data] : e \in files_dict}
\* if st.session_state.download_results: ... if s['sukces'] > 0:
ZipOffered ==
    pc = "done" /\ ~download_results.isNone /\ download_results.val.stats.sukces > 0
zip_data == create_zip_from_memory(download_results.val.downloaded_files)
\* the count in the label of the download button: ({s['sukces']} plików)
ZipLabelCount == download_results.val.stats.sukces

Next ==
    \/ Start
    \/ ClearReport
    \/ \E r \in Rows : RowEmpty(r)
    \/ \E r \in Rows : RowFilteredOut(r)
    \/ \E r \in Rows : RowPdf(r)
    \/ \E r \in Rows : RowBeginFetch(r)
    \/ FetchOk
    \/ FetchRetry
    \/ FetchExhausted
    \/ RowNormalizeFailed
    \/ RowDuplicateSkipped
    \/ RowAdded
    \/ Publish

Spec == Init /\ [][Next]_vars

\* ---------------------------------------------------- extension resolution
\* the links the resolution is tried on: every token sequence up to
\* MaxLinkLen, and some longer ones
Tokens == {"/", ".", "?", ";", "jpg", "jpeg", "PNG", "gif", "webp", "bmp", "PDF", "exe"}
ExtraLinks == {<<"exe", "/", ".", "PDF", ".", "jpg">>,
               <<"exe", ".", "PDF", "/", "exe", ".", "PNG">>,
               <<"exe", "/", "exe", ".", "webp", "?", "exe", ".", "PDF">>,
               <<"exe", "/", "exe", ".", "gif", "#", "exe", ".", "exe">>,
               <<"exe", "/", "exe", ".", "bmp", ";", "exe", ".", "exe">>,
               <<"exe", "/", "exe", ".", "jpeg", "/", "exe">>,
               <<"exe", "/", "exe", ".", "exe", "/", "exe", ".", "JPG">>,
               <<"exe", "/", "exe", ".", "WEBP", "?", "exe">>}
Links == UNION {[1..n -> Tokens] : n \in 0..MaxLinkLen} \cup ExtraLinks

InitResolve ==
    /\ pc = "resolve"
    /\ convert_webp = FALSE
    /\ handle_transparency = FALSE
    /\ overwrite = FALSE
    /\ ean_filter_text = <<>>
    /\ total_rows = 0
    /\ rlink \in Links
    /\ rres = NoResult
    /\ Blank

\* the enhanced row loop from urlparse to original_ext: a PDF link is
\* skipped, any other link gets its extension resolved
ResolveEnhanced ==
    /\ pc = "resolve"
    /\ rres' = IF IsPdfLink(rlink)
               THEN [skipped |-> TRUE, extension |-> PathExtension(rlink)]
               ELSE [skipped |-> FALSE, extension |-> ResolveExtension(rlink)]
    /\ pc' = "resolved_enhanced"
    /\ UNCHANGED <<link_pdf, config, rlink, idx, rowvars, fetcher, ean_filter_set, found_eans,
                   downloaded_files, stats, errors_log, pdf_eans, transparency_processed,
                   row_sleeps, hist, download_results>>

\* the row loop of app.py from urlparse to original_extension
ResolveApp ==
    /\ pc = "resolve"
    /\ rres' = [skipped |-> FALSE, extension |-> ResolveExtension(rlink)]
    /\ pc' = "resolved_app"
    /\ UNCHANGED <<link_pdf, config, rlink, idx, rowvars, fetcher, ean_filter_set, found_eans,
                   downloaded_files, stats, errors_log, pdf_eans, transparency_processed,
                   row_sleeps, hist, download_results>>

NextResolve == ResolveEnhanced \/ ResolveApp

SpecResolve == InitResolve /\ [][NextResolve]_vars

\* ------------------------------------------------------------------ app.py
\* The basic variant: files are written to a folder (downloaded_files stands
\* for its content), pobierz_obraz makes one attempt.
ZeroStatsApp == [sukces |-> 0, blad |-> 0, pominieto |-> 0, konwersje |-> 0]

\* convert_webp_to_png of app.py: an image of mode RGBA (or LA) is pasted on
\* white, whatever its alpha band holds; bytes that do not decode raise
app_convert_webp_to_png(image_bytes) ==
    IF image_bytes.kind = "invalid" THEN RAISE
    ELSE IF image_bytes.mode = "RGBA" THEN [image_bytes EXCEPT !.form = "png_white"]
    ELSE [image_bytes EXCEPT !.form = "png"]

\* the page of app.py as first rendered: the checkboxes at their default
\* values, no run started
InitApp ==
    /\ pc = "app_idle"
    /\ convert_webp = TRUE
    /\ handle_transparency = FALSE
    /\ overwrite = FALSE
    /\ ean_filter_text = <<>>
    /\ total_rows = 0
    /\ rlink = <<>>
    /\ rres = NoResult
    /\ Blank

\* The folder is named after the second of the start (okladki_%Y%m%d_%H%M%S)
\* and made with exist_ok=True: a session of the page started in the same
\* second and working directory writes to the same folder.
\* a file such a session writes
OtherImage == [row |-> -1, kind |-> "opaque", mode |-> "RGB", form |-> "orig"]
OtherFiles == {[name |-> "1.jpg", data |-> OtherImage]}

\* the "POBIERZ OKLADKI" button, rendered whenever a table is loaded, also
\* under the report of a run; the run takes the table and the checkboxes as
\* they are at the press: the folder (with what another session has written
\* to it already; a run that wrote a file itself took more than a second),
\* the counters, the error list
AppStart ==
    /\ pc \in {"app_idle", "app_done"}
    /\ pc' = "app_loop"
    /\ total_rows' \in 0..MaxRows
    /\ convert_webp' \in BOOLEAN
    /\ overwrite' \in BOOLEAN
    /\ downloaded_files' \in SUBSET OtherFiles
    /\ stats' = ZeroStatsApp
    /\ errors_log' = <<>>
    /\ RunReset
    /\ UNCHANGED <<handle_transparency, ean_filter_text, resolver,
                   ean_filter_set, found_eans, pdf_eans, transparency_processed,
                   download_results>>

\* another session writes a file to the folder, while this one is between two
\* rows or waits for its fetch
AppOtherSessionWrites ==
    /\ pc \in {"app_loop", "app_fetch"}
    /\ \E f \in OtherFiles :
         /\ f \notin downloaded_files
         /\ downloaded_files' = DictSet(downloaded_files, f.name, f.data)
    /\ UNCHANGED <<pc, link_pdf, config, resolver, idx, rowvars, fetcher, ean_filter_set,
                   found_eans, stats, errors_log, pdf_eans, transparency_processed,
                   row_sleeps, hist, download_results>>

AppInLoop == pc = "app_loop" /\ idx < total_rows
AppConverts(r) == convert_webp /\ ResolveExtension(r.link) = ".webp"
\* filename = f"{ean}{extension}", the extension .png for a .webp to convert
AppFilename(r) ==
    NormalizeEan(r.ean) \o (IF AppConverts(r) THEN ".png" ELSE ResolveExtension(r.link))
\* if os.path.exists(filepath) and not overwrite
AppExists(r) == AppFilename(r) \in Keys(downloaded_files) /\ ~overwrite

AppFinish(h) ==
    /\ hist' = Append(hist, h)
    /\ row_sleeps' = IF h.paused THEN row_sleeps + 1 ELSE row_sleeps
    /\ idx' = idx + 1
    /\ pc' = "app_loop"
    /\ UNCHANGED <<config, resolver, image_data, fetcher, ean_filter_set, found_eans,
                   pdf_eans, transparency_processed, download_results>>

\* if pd.isna(link) or pd.isna(ean): count and continue
AppRowEmpty(r) ==
    /\ AppInLoop
    /\ link_pdf' = RowPdfLink(r)
    /\ IsEmptyRow(r)
    /\ stats' = Inc(stats, "pominieto")
    /\ AppFinish(Outcome(RowId(r), "", "", FALSE, "none", "EMPTY", FALSE))
    /\ UNCHANGED <<ean, extension, original_ext, downloaded_files, errors_log>>

\* the file is there and overwrite is off: count and continue, nothing fetched
AppRowExists(r) ==
    /\ AppInLoop
    /\ link_pdf' = RowPdfLink(r)
    /\ ~IsEmptyRow(r)
    /\ AppExists(r)
    /\ ean' = NormalizeEan(r.ean)
    /\ stats' = Inc(stats, "pominieto")
    /\ AppFinish(Outcome(ean', ResolveExtension(r.link), AppFilename(r),
                         FALSE, "none", "DUPLICATE_SKIPPED", FALSE))
    /\ UNCHANGED <<extension, original_ext, downloaded_files, errors_log>>

\* the file is not there, or overwrite is on: pobierz_obraz is called and
\* waits for the response
AppRowBeginFetch(r) ==
    /\ AppInLoop
    /\ link_pdf' = RowPdfLink(r)
    /\ ~IsEmptyRow(r)
    /\ ~AppExists(r)
    /\ ean' = NormalizeEan(r.ean)
    /\ original_ext' = ResolveExtension(r.link)
    /\ extension' = IF AppConverts(r) THEN ".png" ELSE ResolveExtension(r.link)
    /\ pc' = "app_fetch"
    /\ UNCHANGED <<config, resolver, idx, image_data, fetcher, ean_filter_set, found_eans,
                   downloaded_files, stats, errors_log, pdf_eans, transparency_processed,
                   row_sleeps, hist, download_results>>

\* if convert_webp and original_extension == '.webp'
AppConverting == convert_webp /\ original_ext = ".webp"

\* pobierz_obraz raises: one error record, one failure, no pause
AppRowFetchFailed ==
    /\ pc = "app_fetch"
    /\ errors_log' = Append(errors_log, [ean |-> ean, msg |-> "fetch"])
    /\ stats' = Inc(stats, "blad")
    /\ AppFinish(Outcome(ean, original_ext, "", FALSE, "none", "FETCH_FAILED", FALSE))
    /\ UNCHANGED <<link_pdf, ean, extension, original_ext, downloaded_files>>

\* the fetch returns and convert_webp_to_png raises
AppRowConvertFailed ==
    /\ pc = "app_fetch"
    /\ AppConverting
    /\ \E im \in Images : app_convert_webp_to_png(Response(im)) = RAISE
    /\ errors_log' = Append(errors_log, [ean |-> ean, msg |-> "convert"])
    /\ stats' = Inc(stats, "blad")
    /\ AppFinish(Outcome(ean, original_ext, "", TRUE, "raised", "NORMALIZE_FAILED", FALSE))
    /\ UNCHANGED <<link_pdf, ean, extension, original_ext, downloaded_files>>

\* the fetch returns, the bytes are converted if need be and written to the
\* file, whatever is there by now; one success; then
\* time.sleep(DELAY_BETWEEN_DOWNLOADS)
AppRowSaved ==
    /\ pc = "app_fetch"
    /\ \E im \in Images :
         LET data == IF AppConverting THEN app_convert_webp_to_png(Response(im))
                     ELSE Response(im)
         IN  /\ data # RAISE
             /\ downloaded_files' = DictSet(downloaded_files, ean \o extension, data)
    /\ stats' = Inc(IF AppConverting THEN Inc(stats, "konwersje") ELSE stats, "sukces")
    /\ AppFinish(Outcome(ean, original_ext, ean \o extension,
                         TRUE, IF AppConverting THEN "ok" ELSE "none", "ADDED", TRUE))
    /\ UNCHANGED <<link_pdf, ean, extension, original_ext, errors_log>>

\* after the loop: the final report is rendered
AppReport ==
    /\ pc = "app_loop" /\ idx = total_rows
    /\ pc' = "app_done"
    /\ UNCHANGED <<link_pdf, config, resolver, idx, rowvars, fetcher, ean_filter_set, found_eans,
                   downloaded_files, stats, errors_log, pdf_eans, transparency_processed,
                   row_sleeps, hist, download_results>>

NextApp ==
    \/ AppStart
    \/ AppOtherSessionWrites
    \/ \E r \in Rows : AppRowEmpty(r)
    \/ \E r \in Rows : AppRowExists(r)
    \/ \E r \in Rows : AppRowBeginFetch(r)
    \/ AppRowFetchFailed
    \/ AppRowConvertFailed
    \/ AppRowSaved
    \/ AppReport

\* both variants of the row loop
SpecVariants == (Init \/ InitApp) /\ [][Next \/ NextApp]_vars

\* ================================================================== claims
Last(q) == q[Len(q)]
\* this step brings a row to its terminal state
RowStep == Len(hist') = Len(hist) + 1
\* the terminal state that row reaches in this step
NewTerm == hist'[Len(hist')].term

AllCounters(s) == s.sukces + s.blad + s.istnieje + s.konwersje + s.transparency_fixed
                  + s.nieznalezione_ean + s.pdf_pominiete + s.puste_wiersze
OutcomeCounters(s) == s.sukces + s.blad + s.istnieje + s.nieznalezione_ean
                      + s.pdf_pominiete + s.puste_wiersze
OutcomeKeys == {"sukces", "blad", "istnieje", "nieznalezione_ean", "pdf_pominiete",
                "puste_wiersze"}

\* C1 as stated: processing a row increases the sum of all eight counters by
\* exactly 1
C1_AllCountersRiseByOne ==
    [][RowStep => AllCounters(stats') = AllCounters(stats) + 1]_vars

\* C1 amended: processing a row increases exactly one of the six
\* terminal-outcome counters, by exactly 1; konwersje and transparency_fixed
\* are counted in addition, at most one of them and at most once for the row
\* (a row is flattened by add_white_background or converted, never both); no
\* other step of a run changes a counter, and the start of a run sets them
\* all to 0
C1_OneOutcomeCounterPerRow ==
    [][/\ RowStep =>
            /\ \E k \in OutcomeKeys :
                 /\ stats'[k] = stats[k] + 1
                 /\ \A j \in OutcomeKeys \ {k} : stats'[j] = stats[j]
            /\ stats'.konwersje - stats.konwersje \in {0, 1}
            /\ stats'.transparency_fixed - stats.transparency_fixed \in {0, 1}
            /\ AllCounters(stats') - AllCounters(stats) \in {1, 2}
       /\ (~RowStep /\ pc \notin {"idle", "done"}) => stats' = stats
       /\ (pc \in {"idle", "done"} /\ pc' = "loop") => stats' = ZeroStats]_vars

\* C1 witness: a row was converted and added, two counters rose for it
C1_Witness ==
    /\ Len(hist) = 1
    /\ hist[1].term = "ADDED"
    /\ stats.konwersje = 1
    /\ stats.sukces = 1

\* the rows that were fetched and normalized under filename f
RowsOf(f) == {i \in 1..Len(hist) : hist[i].file = f}
Min(S) == CHOOSE i \in S : \A j \in S : i <= j
Max(S) == CHOOSE i \in S : \A j \in S : i >= j
Entry(f) == CHOOSE e \in downloaded_files : e.name = f

\* C2: the Bundle holds at most one entry per filename; of the rows that were
\* fetched and normalized under one filename, with overwrite disabled the
\* first one's payload is kept and every later one is counted istnieje and
\* not sukces, with overwrite enabled the last one's payload is held
C2_OneEntryPerFilename ==
    /\ \A e1, e2 \in downloaded_files : e1.name = e2.name => e1 = e2
    /\ stats.istnieje = Cardinality({i \in 1..Len(hist) : hist[i].term = "DUPLICATE_SKIPPED"})
    /\ stats.sukces = Cardinality({i \in 1..Len(hist) : hist[i].term = "ADDED"})
    /\ \A i \in 1..Len(hist) :
         hist[i].file # "" =>
           /\ hist[i].file \in Keys(downloaded_files)
           /\ Entry(hist[i].file).data.row + 1 =
                IF overwrite THEN Max(RowsOf(hist[i].file)) ELSE Min(RowsOf(hist[i].file))
           /\ hist[i].term = IF ~overwrite /\ i # Min(RowsOf(hist[i].file))
                             THEN "DUPLICATE_SKIPPED" ELSE "ADDED"

\* C2 witness: two rows were fetched and normalized under one filename with
\* overwrite disabled
C2_Witness ==
    /\ ~overwrite
    /\ Len(hist) = 2
    /\ hist[1].file # ""
    /\ hist[1].file = hist[2].file
    /\ hist[2].term = "DUPLICATE_SKIPPED"

\* conversion applies to a finished row
ConversionApplies(h) == convert_webp /\ h.ext = ".webp"

\* C3: every Bundle entry was written by a row whose fetch returned and
\* whose conversion, when it applies, was made and did not raise; a row that
\* ends in FETCH_FAILED or NORMALIZE_FAILED leaves the Bundle unchanged
C3_OnlyFetchedAndConverted ==
    /\ [](\A e \in downloaded_files :
            /\ e.data.row + 1 \in 1..Len(hist)
            /\ LET h == hist[e.data.row + 1]
               IN  /\ h.file = e.name
                   /\ h.fetched
                   /\ h.conv # "raised"
                   /\ ConversionApplies(h) <=>
                        (h.conv = "ok" /\ e.data.form \in {"png", "png_white"}))
    /\ [][(RowStep /\ NewTerm \in {"FETCH_FAILED", "NORMALIZE_FAILED"})
            => downloaded_files' = downloaded_files]_vars

\* C3 witness: a converted payload is in the Bundle and a later row's
\* conversion raised
C3_Witness ==
    /\ Len(hist) = 2
    /\ hist[1].conv = "ok"
    /\ hist[1].term = "ADDED"
    /\ hist[2].term = "NORMALIZE_FAILED"
    /\ Cardinality(downloaded_files) = 1

FetchFailedTerms == {"FETCH_FAILED", "NORMALIZE_FAILED"}
AllErr(q) == \A i \in 1..Len(q) : q[i] = "err"
\* in this step the third attempt of the running fetch fails
ThirdAttemptFails == pc = "fetch" /\ Len(tries) = 2 /\ tries' = Append(tries, "err")
\* the fetched bytes are about to be converted and do not decode
ConversionRaises == pc = "fetched" /\ convert_webp /\ original_ext = ".webp"
                    /\ image_data.kind = "invalid"

\* this step ends a row in FETCH_FAILED or NORMALIZE_FAILED
FailStep == RowStep /\ NewTerm \in FetchFailedTerms
Reported == pc \in {"done", "app_done"}

\* C4: in both variants the step that ends a row in FETCH_FAILED or
\* NORMALIZE_FAILED appends exactly one error record naming the row's
\* identifier, adds 1 to blad, leaves sukces alone and moves the loop on to
\* the next row; in the enhanced variant a third failed attempt and a
\* conversion that raises are such steps; within a run blad changes for no
\* other reason; the
\* report is made when every row of the table has its terminal state, and
\* holds one error record per failed row
C4_BadRowDoesNotAbort ==
    /\ [][(ThirdAttemptFails \/ (ConversionRaises /\ vars' # vars)) => FailStep]_vars
    /\ [][FailStep =>
            /\ Len(errors_log') = Len(errors_log) + 1
            /\ SubSeq(errors_log', 1, Len(errors_log)) = errors_log
            /\ Last(errors_log').ean = hist'[Len(hist')].ean
            /\ Last(errors_log').ean = ean'
            /\ stats'.blad = stats.blad + 1
            /\ stats'.sukces = stats.sukces
            /\ pc' \in {"loop", "app_loop"} /\ idx' = idx + 1 /\ idx' <= total_rows]_vars
    /\ [][(stats'.blad # stats.blad /\ pc \notin {"idle", "done", "app_idle", "app_done"})
            => FailStep]_vars
    /\ [](Reported =>
            /\ Len(hist) = total_rows
            /\ Len(errors_log) = Cardinality({i \in 1..Len(hist) : hist[i].term \in FetchFailedTerms})
            /\ stats.blad = Len(errors_log)
            /\ pc = "done" => (/\ download_results.val.stats = stats
                               /\ download_results.val.errors_log = errors_log))

\* C4 witness: the report of a run whose first row failed to fetch and whose
\* second row was added
C4_Witness ==
    /\ pc = "done"
    /\ Len(hist) = 2
    /\ hist[1].term = "FETCH_FAILED"
    /\ hist[2].term = "ADDED"
    /\ Len(errors_log) = 1

\* pobierz_obraz is running, has returned, has raised
FetchRunning == pc = "fetch"
FetchReturned == pc = "fetched"
FetchRaised == pc \notin {"fetch", "fetched"} /\ tries # <<>>

\* C5: a call of pobierz_obraz makes between 1 and 3 attempts; it returns
\* the body of the first attempt that succeeds and attempts nothing after
\* it; it raises only after three failed attempts; it sleeps once after each
\* failed attempt but the third
C5_AtMostThreeAttempts ==
    /\ [](/\ Len(tries) <= 3
          /\ FetchRunning => (AllErr(tries) /\ Len(tries) <= 2 /\ retry_sleeps = Len(tries))
          /\ FetchReturned =>
               /\ tries # <<>> /\ Last(tries) # "err"
               /\ AllErr(SubSeq(tries, 1, Len(tries) - 1))
               /\ retry_sleeps = Len(tries) - 1
               /\ image_data.row = idx
               /\ image_data.kind = Last(tries)
               /\ image_data.form = "orig"
          /\ FetchRaised => (tries = <<"err", "err", "err">> /\ retry_sleeps = 2))
    /\ [][(~FetchRunning /\ tries' # tries) => tries' = <<>>]_vars
    /\ [][(FetchRunning /\ pc' # "fetch" /\ tries' # <<>> /\ Last(tries') = "err")
            => (pc' = "loop" /\ Len(tries) = 2 /\ retry_sleeps' = retry_sleeps)]_vars
    /\ [][(FetchRunning /\ Len(tries) < 2 /\ tries' = Append(tries, "err"))
            => (pc' = "fetch" /\ retry_sleeps' = retry_sleeps + 1
                /\ errors_log' = errors_log)]_vars

\* C5 witness: the third attempt succeeded after two failures and two sleeps
C5_Witness ==
    /\ pc = "fetched"
    /\ Len(tries) = 3
    /\ tries[1] = "err" /\ tries[2] = "err"
    /\ retry_sleeps = 2

\* C6 as stated: a row that ends in FETCH_FAILED, NORMALIZE_FAILED,
\* DUPLICATE_SKIPPED or ADDED is followed by one pause, a row that ends in
\* EMPTY, FILTERED_OUT or UNSUPPORTED_FORMAT by none
C6_PauseAfterFetchedRows ==
    /\ \A i \in 1..Len(hist) :
         hist[i].paused <=>
           hist[i].term \in {"FETCH_FAILED", "NORMALIZE_FAILED", "DUPLICATE_SKIPPED", "ADDED"}
    /\ row_sleeps = Cardinality({i \in 1..Len(hist) : hist[i].paused})

\* the counter of a terminal state a row with a PDF link can reach
SkipCounter(term) ==
    CASE term = "EMPTY" -> "puste_wiersze"
      [] term = "FILTERED_OUT" -> "nieznalezione_ean"
      [] OTHER -> "pdf_pominiete"

TableIds == {hist[i].ean : i \in 1..Len(hist)} \ {""}

\* C8 as stated: with an allow-list, every allow-list identifier absent from
\* the table is in the missing set and every row whose identifier is not in
\* the allow-list is counted FILTERED_OUT
C8_AllRowsOutsideListFiltered ==
    (pc = "done" /\ Truthy(ean_filter_set)) =>
        /\ \A a \in ean_filter_set.val :
             a \notin TableIds => a \in download_results.val.missing_eans.val
        /\ \A i \in 1..Len(hist) :
             (hist[i].ean # "" /\ hist[i].ean \notin ean_filter_set.val)
               => hist[i].term = "FILTERED_OUT"

\* C8 amended: with a non-empty allow-list, every allow-list identifier
\* absent from the table is in the missing set, and every row with both cells
\* present whose identifier is not in the allow-list is counted FILTERED_OUT
\* and is never fetched
C8_NonEmptyRowsOutsideListFiltered ==
    /\ [](Truthy(ean_filter_set) =>
            /\ \A i \in 1..Len(hist) :
                 (hist[i].term # "EMPTY" /\ hist[i].ean \notin ean_filter_set.val)
                   => (hist[i].term = "FILTERED_OUT" /\ ~hist[i].fetched)
            /\ stats.nieznalezione_ean =
                 Cardinality({i \in 1..Len(hist) : hist[i].term # "EMPTY"
                                                   /\ hist[i].ean \notin ean_filter_set.val})
            /\ pc \in {"fetch", "fetched"} => ean \in ean_filter_set.val
            /\ pc = "done" =>
                 /\ ~download_results.val.missing_eans.isNone
                 /\ \A a \in ean_filter_set.val :
                      a \notin TableIds => a \in download_results.val.missing_eans.val)
    /\ [][(RowStep /\ NewTerm = "FILTERED_OUT") => (pc = "loop" /\ tries' = tries)]_vars

\* C8 witness: the report of a run with an allow-list naming an identifier
\* absent from the table, one row filtered out and one row added
C8_Witness ==
    /\ pc = "done"
    /\ Truthy(ean_filter_set)
    /\ "3" \in download_results.val.missing_eans.val
    /\ Len(hist) = 2
    /\ hist[1].term = "FILTERED_OUT"
    /\ hist[2].term = "ADDED"

TerminalStates == {"EMPTY", "FILTERED_OUT", "UNSUPPORTED_FORMAT", "FETCH_FAILED",
                   "NORMALIZE_FAILED", "DUPLICATE_SKIPPED", "ADDED"}

\* the steps one row can take: the fetch is begun, max_retries + 1 attempts
\* are made, the fetched bytes are processed
RowBudget == max_retries + 3
\* a bound on the steps the run has left
StepsLeft ==
    CASE pc = "loop" -> RowBudget * (total_rows - idx) + 1
      [] pc = "fetch" -> RowBudget * (total_rows - idx) - attempt
      [] pc = "fetched" -> RowBudget * (total_rows - idx - 1) + 2
      [] OTHER -> 0

\* a run is under way; the page is at rest before a run and under a report
Running == pc \in {"loop", "fetch", "fetched"}

\* C10: a started run terminates: until its report is published a step of
\* the run is always possible, and every step of the run lowers a bound on
\* the steps left, which never falls below 0 and is 0 when the report is
\* published; the rows are taken one at a time in table order, each is
\* brought once to one terminal state that is never revised, and the held
\* report is replaced only after the last row of the run, by that run's
\* statistics, error list and Bundle
C10_RunTerminates ==
    /\ [](Running => ENABLED (Next /\ pc' \in {"loop", "fetch", "fetched", "done"}))
    /\ [](StepsLeft >= 0 /\ (Running => StepsLeft > 0) /\ (pc = "done" => StepsLeft = 0))
    /\ [][Running => StepsLeft' < StepsLeft]_vars
    /\ [](/\ Len(hist) = idx
          /\ idx <= total_rows
          /\ \A i \in 1..Len(hist) : hist[i].term \in TerminalStates
          /\ pc \in {"fetch", "fetched"} => idx < total_rows
          /\ pc = "idle" => download_results.isNone
          /\ pc = "done" => (/\ idx = total_rows
                             /\ ~download_results.isNone
                             /\ download_results.val.stats = stats
                             /\ download_results.val.errors_log = errors_log
                             /\ download_results.val.downloaded_files = downloaded_files))
    /\ [][(Running /\ download_results' # download_results) =>
            /\ pc = "loop" /\ pc' = "done"
            /\ idx = total_rows /\ Len(hist) = total_rows
            /\ ~download_results'.isNone
            /\ download_results'.val.stats = stats
            /\ download_results'.val.errors_log = errors_log
            /\ download_results'.val.downloaded_files = downloaded_files]_vars
    /\ [][pc # "done" =>
            /\ idx' \in {idx, idx + 1}
            /\ Len(hist') = Len(hist) + (idx' - idx)
            /\ SubSeq(hist', 1, Len(hist)) = hist
            /\ (pc \in {"fetch", "fetched"} /\ idx' = idx) => pc' \in {"fetch", "fetched"}]_vars

\* C10 witness: a report published for a table of MaxRows rows
C10_Witness ==
    /\ pc = "done"
    /\ total_rows = MaxRows
    /\ Len(hist) = MaxRows
    /\ ~download_results.isNone

\* C9 as stated: whichever variant resolves a link, the resolved extension is
\* the path extension when that is in the allowed set and .jpg otherwise
C9_ResolvedForEveryLink ==
    pc \in {"resolved_enhanced", "resolved_app"} =>
        /\ ~rres.skipped
        /\ rres.extension = IF PathExtension(rlink) \in ALLOWED_FORMATS
                            THEN PathExtension(rlink) ELSE ".jpg"

\* C9 amended: app.py resolves every link, and the enhanced variant every
\* link that is not a PDF link, to the path extension when that is in the
\* allowed set and to .jpg otherwise; the enhanced variant resolves no
\* extension for a PDF link, it skips the row
C9_ResolvedUnlessPdf ==
    /\ pc = "resolved_app" =>
         /\ ~rres.skipped
         /\ rres.extension = IF PathExtension(rlink) \in ALLOWED_FORMATS
                             THEN PathExtension(rlink) ELSE ".jpg"
    /\ pc = "resolved_enhanced" =>
         /\ rres.skipped <=> ClaimedPdf(rlink)
         /\ ~rres.skipped =>
              rres.extension = IF PathExtension(rlink) \in ALLOWED_FORMATS
                               THEN PathExtension(rlink) ELSE ".jpg"

\* C9 witness: the enhanced variant resolved an upper-case .PNG link to .png
C9_Witness ==
    /\ pc = "resolved_enhanced"
    /\ rlink = <<"/", "exe", ".", "PNG">>
    /\ rres = [skipped |-> FALSE, extension |-> ".png"]

\* the row that fetched the payload d, and the form in which a payload of a
\* .webp row is to be stored
RowOfPayload(d) == hist[d.row + 1]
WebpStoredForm(d) ==
    IF ~convert_webp THEN "orig"
    ELSE IF handle_transparency /\ d.kind = "alpha" THEN "png_white"
    ELSE "png"

\* C11: the step that ends a row whose resolved extension is .webp leaves
\* transparency_fixed and the list of flattened identifiers alone, and so
\* does the step of every row that went through convert_webp_to_png, so no
\* row is flattened by both paths; the payload of a .webp row is stored as
\* fetched when convert_webp is off, whatever handle_transparency is, and is
\* flattened inside the conversion exactly when both options are on (and the
\* image has transparency); a row of another extension is flattened by
\* add_white_background exactly when handle_transparency is on and the image
\* has transparency
C11_WebpFlattenedOnlyInConversion ==
    /\ [][(RowStep /\ pc = "fetched" /\ original_ext = ".webp") =>
            /\ stats'.transparency_fixed = stats.transparency_fixed
            /\ transparency_processed' = transparency_processed]_vars
    /\ [][(RowStep /\ hist'[Len(hist')].conv # "none") =>
            /\ original_ext = ".webp"
            /\ stats'.transparency_fixed = stats.transparency_fixed]_vars
    /\ [][(RowStep /\ pc = "fetched" /\ original_ext # ".webp") =>
            /\ hist'[Len(hist')].conv = "none"
            /\ (stats'.transparency_fixed = stats.transparency_fixed + 1)
                  <=> (handle_transparency /\ image_data.kind = "alpha")]_vars
    /\ [](\A e \in downloaded_files :
            /\ e.data.row + 1 \in 1..Len(hist)
            /\ RowOfPayload(e.data).ext = ".webp" =>
                 e.data.form = WebpStoredForm(e.data)
            /\ RowOfPayload(e.data).ext # ".webp" =>
                 e.data.form = IF handle_transparency /\ e.data.kind = "alpha"
                               THEN "white" ELSE "orig")
    /\ [](stats.transparency_fixed = Len(transparency_processed))

\* C11 witness: with handle_transparency on and convert_webp off, a .webp
\* image with transparency is in the Bundle as fetched, and no flattening
\* was counted
C11_Witness ==
    /\ handle_transparency /\ ~convert_webp
    /\ \E e \in downloaded_files :
         /\ e.name = "1.webp"
         /\ e.data.kind = "alpha"
         /\ e.data.form = "orig"
    /\ stats.transparency_fixed = 0
    /\ stats.sukces = 1

\* C12: with overwrite disabled, in every state of a run sukces equals the
\* number of entries (and of filenames) in the Bundle; the archive is offered
\* exactly when the published sukces is above 0, and with overwrite disabled
\* the count on its label is the number of its members
C12_SuccessCountIsBundleSize ==
    /\ ~overwrite =>
         /\ stats.sukces = Cardinality(downloaded_files)
         /\ stats.sukces = Cardinality(Keys(downloaded_files))
    /\ ZipOffered <=> (pc = "done" /\ stats.sukces > 0)
    /\ ZipOffered => Cardinality(zip_data) > 0
    /\ (ZipOffered /\ ~overwrite) =>
         /\ ZipLabelCount = Cardinality(zip_data)
         /\ {m.member : m \in zip_data} = Keys(downloaded_files)

\* C12 witness: with overwrite disabled a second row under a filename already
\* in the Bundle was skipped; the archive on offer has one member and the
\* label counts one file
C12_Witness ==
    /\ pc = "done"
    /\ ~overwrite
    /\ Len(hist) = 2
    /\ hist[2].term = "DUPLICATE_SKIPPED"
    /\ ZipOffered
    /\ ZipLabelCount = 1
    /\ Cardinality(zip_data) = 1

\* the number of finished rows that ended in one of the terminal states T
Ended(T) == Cardinality({i \in 1..Len(hist) : hist[i].term \in T})

\* C13: in every state of a run, under every combination of the options, the
\* six terminal-outcome counters add up to the number of rows processed so
\* far, each of them counts the rows that ended in its terminal states, and
\* the error list is as long as blad; the published report counts every row
\* of the table
C13_OutcomeCountersPartitionRows ==
    /\ OutcomeCounters(stats) = idx
    /\ OutcomeCounters(stats) = Len(hist)
    /\ stats.puste_wiersze = Ended({"EMPTY"})
    /\ stats.nieznalezione_ean = Ended({"FILTERED_OUT"})
    /\ stats.pdf_pominiete = Ended({"UNSUPPORTED_FORMAT"})
    /\ stats.blad = Ended({"FETCH_FAILED", "NORMALIZE_FAILED"})
    /\ stats.istnieje = Ended({"DUPLICATE_SKIPPED"})
    /\ stats.sukces = Ended({"ADDED"})
    /\ Len(errors_log) = stats.blad
    /\ pc = "done" =>
         /\ OutcomeCounters(download_results.val.stats) = total_rows
         /\ Len(download_results.val.errors_log) = download_results.val.stats.blad

\* C13 witness: a row whose conversion raised and an empty row have been
\* processed, with one error record
C13_Witness ==
    /\ pc = "loop"
    /\ Len(hist) = 2
    /\ hist[1].term = "NORMALIZE_FAILED"
    /\ hist[2].term = "EMPTY"
    /\ stats.blad = 1 /\ stats.puste_wiersze = 1
    /\ Len(errors_log) = 1

====
